---- MODULE Spec2Model ----
(***************************************************************************)
(* A model of the tokenizer tooling of M1/tokenizer:                       *)
(*   compare-tokenizers.py  the comparison command (loader, ranker, table) *)
(*   tokenizer-build.py     the build command                              *)
(*   corpora.py             corpus file discovery                          *)
(* The BPE engine itself (Tokenizer, BpeTrainer) is the third-party        *)
(* `tokenizers` library: its calls are external steps whose results are    *)
(* drawn from small sets.                                                  *)
(***************************************************************************)
EXTENDS Integers, Sequences, FiniteSets, TLC

\* ------------------------------------------------------------------ bounds

\* Largest number of token ids an encode call returns in the model.
MaxCount == 2
\* Largest --vocab-size argument of the build command in the model.
MaxVocab == 6
\* Largest number of distinct base symbols of a corpus in the model.
MaxAlphabet == 1

\* ------------------------------------------------------- comparison: data

\* File stems of the tokenizer directory, in the order sorted() gives paths.
NameOrder == <<"a", "b", "c">>
Names == {NameOrder[i] : i \in 1..Len(NameOrder)}

\* Entries a tokenizer directory can hold, in the order sorted() gives them.
FileOrder ==
  << [stem |-> "a", suffix |-> "json"],
     [stem |-> "a", suffix |-> "txt"],
     [stem |-> "b", suffix |-> "json"],
     [stem |-> "c", suffix |-> "json"] >>
DirUniverse == {FileOrder[i] : i \in 1..Len(FileOrder)}

\* tokenizer_dir.glob("*.json")
GlobJson(dir) == {f \in dir : f.suffix = "json"}

\* sorted(tokenizer_files)
Sorted(files) == SelectSeq(FileOrder, LAMBDA f : f \in files)

\* tokenizer_file.stem
Stem(f) == f.stem

\* The three text files main compares.
NumTextFiles == 3
\* What a text file is on disk.
TextKinds == {"missing", "unreadable", "empty", "text"}

\* load_text_file: the content, "" when reading raised.
load_text_file(kind) == IF kind = "text" THEN "t" ELSE ""

\* The id lists an encode call can return.
EncodedIds == UNION {[1..n -> {0}] : n \in 0..MaxCount}

\* tokenize_and_count: len(encoded.ids)
tokenize_and_count(ids) == Len(ids)

\* A dict is the sequence of its (key, value) items in insertion order.
DictKeys(d) == {d[i][1] : i \in 1..Len(d)}
DictSet(d, k, v) ==
  IF k \in DictKeys(d)
    THEN [i \in 1..Len(d) |-> IF d[i][1] = k THEN <<k, v>> ELSE d[i]]
    ELSE Append(d, <<k, v>>)

\* ------------------------------------------------------ comparison: ranker

\* A sort that is not stable: x goes before the entries of equal key.
SortInsertUnstable(x, s) ==
  LET before == {i \in 0..Len(s) : \A j \in 1..i : s[j][2] < x[2]}
      p == CHOOSE i \in before : \A k \in before : k <= i
  IN  SubSeq(s, 1, p) \o <<x>> \o SubSeq(s, p + 1, Len(s))

\* One insertion of list.sort(key=lambda x: x[1]): x goes after every entry
\* whose key is not larger (the sort is stable).
SortInsert(x, s) ==
  LET before == {i \in 0..Len(s) : \A j \in 1..i : s[j][2] <= x[2]}
      p == CHOOSE i \in before : \A k \in before : k <= i
  IN  SubSeq(s, 1, p) \o <<x>> \o SubSeq(s, p + 1, Len(s))

RECURSIVE SortByCount(_)
SortByCount(s) ==
  IF s = <<>> THEN <<>>
  ELSE SortInsert(s[Len(s)], SortByCount(SubSeq(s, 1, Len(s) - 1)))

\* The ranker with results.sort left out.
compare_tokenizers_unsorted(toks, enc) ==
  [i \in 1..Len(toks) |-> <<toks[i][1], tokenize_and_count(enc[i])>>]

\* compare_tokenizers_on_text: enc[i] is what the i-th tokenizer of the
\* mapping encodes the text to.
compare_tokenizers_on_text(toks, enc) ==
  SortByCount([i \in 1..Len(toks) |-> <<toks[i][1], tokenize_and_count(enc[i])>>])

\* ------------------------------------------------------- comparison: table

\* Python's a / b on ints: the exact quotient num/den, and den = 0 stands for
\* the ZeroDivisionError the division raises.
PyTrueDiv(a, b) == IF b = 0 THEN [num |-> 0, den |-> 0] ELSE [num |-> a, den |-> b]
\* q * k for a quotient q (a raised error stays raised).
PyTimes(q, k) == [num |-> q.num * k, den |-> q.den]
\* The int 0 of the `else 0` branches.
PyZero == [num |-> 0, den |-> 1]
Raised(q) == q.den = 0

\* get_color_for_rank: ratio = rank / total against 0.2, 0.4, 0.6, 0.8.
get_color_for_rank(rank, total) ==
  IF total = 0 THEN "ZeroDivisionError"
  ELSE IF rank * 5 < total THEN "bright_green"
  ELSE IF rank * 5 < 2 * total THEN "green"
  ELSE IF rank * 5 < 3 * total THEN "yellow"
  ELSE IF rank * 5 < 4 * total THEN "orange3"
  ELSE "red"

\* Width of the bar display_results_table asks for.
BarWidth == 40

\* create_bar: (value / max_value) * width as computed before int() truncates
\* it, 0 when max_value is not positive.
create_bar(value, max_value, width) ==
  IF max_value > 0 THEN PyTimes(PyTrueDiv(value, max_value), width) ELSE PyZero

\* diff_percent without the `if min_tokens > 0` guard.
DiffPercentUnguarded(token_count, min_tokens) ==
  PyTimes(PyTrueDiv(token_count - min_tokens, min_tokens), 100)

\* diff_percent of display_results_table.
DiffPercent(token_count, min_tokens) ==
  IF min_tokens > 0
    THEN PyTimes(PyTrueDiv(token_count - min_tokens, min_tokens), 100)
    ELSE PyZero

\* The row display_results_table computes for the entry at `rank` (1-based).
TableRow(res, rank) ==
  LET min_tokens == res[1][2]
      max_tokens == res[Len(res)][2]
  IN  [ rank |-> rank,
        name |-> res[rank][1],
        tokens |-> res[rank][2],
        color |-> get_color_for_rank(rank - 1, Len(res)),
        bar |-> create_bar(res[rank][2], max_tokens, BarWidth),
        diff |-> DiffPercent(res[rank][2], min_tokens),
        best |-> (rank = 1) ]

RowRaises(row) ==
  row.color = "ZeroDivisionError" \/ Raised(row.bar) \/ Raised(row.diff)

\* display_results_table: the rows printed, or the exception that ends it at
\* the first row that raises (nothing is printed then: the panel is printed
\* after the loop).
display_results_table(res) ==
  IF res = <<>> THEN [exc |-> "none", rows |-> <<>>]
  ELSE LET rows == [i \in 1..Len(res) |-> TableRow(res, i)]
       IN  IF \E i \in 1..Len(res) : RowRaises(rows[i])
             THEN [exc |-> "ZeroDivisionError", rows |-> <<>>]
             ELSE [exc |-> "none", rows |-> rows]

\* ---------------------------------------------------------------- corpora

\* A corpus file, by the series its name starts with and its suffix; a glob
\* pattern "<series>-*.<suffix>", with series "*" for "*.<suffix>".
CorpusFileUniverse ==
  << [series |-> "pan-tadeusz-ksiega", suffix |-> "txt"],
     [series |-> "krzyzacy", suffix |-> "txt"] >>
Patterns ==
  { [series |-> "*", suffix |-> "txt"],
    [series |-> "pan-tadeusz-ksiega", suffix |-> "txt"],
    [series |-> "krzyzacy", suffix |-> "txt"] }
Matches(pattern, f) ==
  /\ pattern.suffix = f.suffix
  /\ (pattern.series = "*" \/ pattern.series = f.series)

\* The listings a corpus directory can have (a missing directory lists
\* nothing).
Listings == {SubSeq(CorpusFileUniverse, 1, n) : n \in 0..Len(CorpusFileUniverse)}

\* directory.glob(pattern), the directory given by its listing.
Glob(listing, pattern) == SelectSeq(listing, LAMBDA f : Matches(pattern, f))

\* CORPORA_DIRS: corpus name -> directory.
CORPORA_DIRS == [NKJP |-> "korpus-nkjp/output", WOLNELEKTURY |-> "korpus-wolnelektury"]

\* CORPORA_FILES as built at import time over the file system fsys
\* (directory -> listing), "ALL" added last.
CORPORA_FILES(fsys) ==
  LET nkjp == Glob(fsys[CORPORA_DIRS["NKJP"]], [series |-> "*", suffix |-> "txt"])
      wl == Glob(fsys[CORPORA_DIRS["WOLNELEKTURY"]], [series |-> "*", suffix |-> "txt"])
      pt == Glob(fsys[CORPORA_DIRS["WOLNELEKTURY"]],
                 [series |-> "pan-tadeusz-ksiega", suffix |-> "txt"])
  IN  [NKJP |-> nkjp, WOLNELEKTURY |-> wl, PAN_TADEUSZ |-> pt,
       ALL |-> nkjp \o wl \o pt]

\* The corpus names a caller can pass.
CorpusNames == {"NKJP", "WOLNELEKTURY", "PAN_TADEUSZ", "ALL", "WOLNE_LEKTURY", "MINI"}

\* get_corpus_file without its `not in CORPORA_FILES` check: an unknown name
\* reaches the CORPORA_DIRS lookup.
get_corpus_file_unchecked(fsys, corpus_name, glob_pattern) ==
  IF corpus_name = "ALL"
    THEN [exc |-> "none", returned |-> TRUE,
          value |-> Glob(fsys[CORPORA_DIRS["NKJP"]], glob_pattern)
                    \o Glob(fsys[CORPORA_DIRS["WOLNELEKTURY"]], glob_pattern)]
  ELSE IF corpus_name \notin DOMAIN CORPORA_DIRS
    THEN [exc |-> "KeyError", returned |-> FALSE, value |-> <<>>]
  ELSE [exc |-> "none", returned |-> TRUE,
        value |-> Glob(fsys[CORPORA_DIRS[corpus_name]], glob_pattern)]

\* get_corpus_file: the list returned (returned = TRUE), or the exception
\* raised (nothing is returned then).
get_corpus_file(fsys, corpus_name, glob_pattern) ==
  IF corpus_name \notin DOMAIN CORPORA_FILES(fsys)
    THEN [exc |-> "ValueError: Corpus not found", returned |-> FALSE, value |-> <<>>]
  ELSE IF corpus_name = "ALL"
    THEN [exc |-> "none", returned |-> TRUE,
          value |-> Glob(fsys[CORPORA_DIRS["NKJP"]], glob_pattern)
                    \o Glob(fsys[CORPORA_DIRS["WOLNELEKTURY"]], glob_pattern)]
  ELSE IF corpus_name \notin DOMAIN CORPORA_DIRS
    THEN [exc |-> "KeyError", returned |-> FALSE, value |-> <<>>]
  ELSE [exc |-> "none", returned |-> TRUE,
        value |-> Glob(fsys[CORPORA_DIRS[corpus_name]], glob_pattern)]

FileSystems == [{CORPORA_DIRS["NKJP"], CORPORA_DIRS["WOLNELEKTURY"]} -> Listings]

\* special_tokens of the BpeTrainer the build command sets up.
NumSpecialTokens == 5

\* ------------------------------------------------------------------ state

VARIABLES
  cmd,          \* the entry point that runs: "compare" and "build" are the two
                \* commands, "rank" a call of compare_tokenizers_on_text and
                \* display_results_table, "corpus" a call of get_corpus_file
  pc,           \* the position in it
  exc,          \* the exception that ended it, "none" otherwise
  exitCode,     \* the process's exit code once pc = "exit", -1 before
  dir,          \* the entries of the tokenizer directory
  badFiles,     \* the files Tokenizer.from_file has raised on
  loadQueue,    \* load_tokenizers: the sorted files not yet visited
  tokenizers,   \* the dict name -> Tokenizer, as its items in insertion order
  loadErrors,   \* the files whose load error was printed, in order
  textFiles,    \* what main found each text file visited so far to be
  ti,           \* the index of the text file main's loop is at
  text,         \* the text being compared
  encoded,      \* the ids each tokenizer of the mapping encoded the text to
  results,      \* the list compare_tokenizers_on_text returned
  table,        \* the rows of the table printed last
  compared,     \* the text files handed to compare_tokenizers_on_text, in order
  skipped,      \* the text files reported and skipped, in order
  messages,     \* the status lines main printed
  fsys,         \* the corpus directories' listings
  corpusName,   \* --corpora, or get_corpus_file's corpus_name
  globPattern,  \* --filter, or get_corpus_file's glob_pattern
  vocabSize,    \* --vocab-size
  alphabet,     \* the number of distinct base symbols of the corpus
  corpusRet,    \* what get_corpus_file did
  trained,      \* tokenizer.train returned
  saved         \* tokenizer.save wrote the vocabulary file

vars ==
  << cmd, pc, exc, exitCode, dir, badFiles, loadQueue, tokenizers, loadErrors,
     textFiles, ti, text, encoded, results, table, compared, skipped, messages,
     fsys, corpusName, globPattern, vocabSize, alphabet, corpusRet, trained, saved >>

compareVars ==
  << dir, badFiles, loadQueue, tokenizers, loadErrors, textFiles, ti, text,
     encoded, results, table, compared, skipped, messages >>
buildVars ==
  << fsys, corpusName, globPattern, vocabSize, alphabet, corpusRet, trained, saved >>

NoCall == [exc |-> "none", returned |-> FALSE, value |-> <<>>]

\* The mappings a caller can hand to compare_tokenizers_on_text: the names
\* of any subset of the files, in any order.
RECURSIVE Orderings(_)
Orderings(S) ==
  IF S = {} THEN {<<>>}
  ELSE UNION {{<<x>> \o t : t \in Orderings(S \ {x})} : x \in S}
Mappings ==
  UNION { {[i \in 1..Len(o) |-> <<Stem(o[i]), o[i]>>] : o \in Orderings(S)}
          : S \in SUBSET GlobJson(DirUniverse) }

InitCompareIdle ==
  /\ dir = {} /\ badFiles = {} /\ loadQueue = <<>> /\ tokenizers = <<>>
  /\ loadErrors = <<>> /\ textFiles = <<>> /\ ti = 1 /\ text = ""
  /\ encoded = <<>> /\ results = <<>> /\ table = <<>> /\ compared = <<>>
  /\ skipped = <<>> /\ messages = <<>>
InitBuildIdle ==
  /\ fsys \in {[d \in {CORPORA_DIRS["NKJP"], CORPORA_DIRS["WOLNELEKTURY"]} |-> <<>>]}
  /\ corpusName = "ALL" /\ globPattern \in {[series |-> "*", suffix |-> "txt"]}
  /\ vocabSize = 0 /\ alphabet = 0 /\ corpusRet = NoCall
  /\ trained = FALSE /\ saved = FALSE

\* The comparison command starts: main is about to call load_tokenizers.
InitCompare ==
  /\ cmd = "compare" /\ pc = "load"
  /\ dir \in SUBSET DirUniverse
  /\ badFiles = {}
  /\ loadQueue = Sorted(GlobJson(dir))
  /\ tokenizers = <<>> /\ loadErrors = <<>>
  /\ textFiles = <<>>
  /\ ti = 1 /\ text = "" /\ encoded = <<>> /\ results = <<>> /\ table = <<>>
  /\ compared = <<>> /\ skipped = <<>> /\ messages = <<>>
  /\ InitBuildIdle

\* A caller is about to call compare_tokenizers_on_text.
InitRank ==
  /\ cmd = "rank" /\ pc = "call_compare"
  /\ tokenizers \in Mappings
  /\ text \in {"", "t"}
  /\ dir = {} /\ badFiles = {} /\ loadQueue = <<>> /\ loadErrors = <<>>
  /\ textFiles = <<>> /\ ti = 1 /\ encoded = <<>> /\ results = <<>>
  /\ table = <<>>
  /\ compared = <<>> /\ skipped = <<>> /\ messages = <<>>
  /\ InitBuildIdle

\* The build command starts, its arguments parsed.
InitBuild ==
  /\ cmd = "build" /\ pc = "get_corpus_file"
  /\ fsys \in FileSystems
  /\ corpusName \in CorpusNames
  /\ globPattern \in Patterns
  /\ vocabSize \in 0..MaxVocab
  /\ alphabet = 0
  /\ corpusRet = NoCall /\ trained = FALSE /\ saved = FALSE
  /\ InitCompareIdle

\* A caller is about to call get_corpus_file.
InitCorpus ==
  /\ cmd = "corpus" /\ pc = "call_get_corpus_file"
  /\ fsys \in FileSystems
  /\ corpusName \in CorpusNames
  /\ globPattern \in Patterns
  /\ vocabSize = 0 /\ alphabet = 0
  /\ corpusRet = NoCall /\ trained = FALSE /\ saved = FALSE
  /\ InitCompareIdle

Init ==
  /\ exc = "none" /\ exitCode = -1
  /\ (InitCompare \/ InitRank \/ InitBuild \/ InitCorpus)

\* ------------------------------------------------- the comparison command

\* load_tokenizers, one pass of its loop: Tokenizer.from_file returns and the
\* tokenizer is stored under the file's stem. Whether a file loads is found
\* out when it is read.
LoadOk ==
  /\ cmd = "compare" /\ pc = "load" /\ loadQueue # <<>>
  /\ tokenizers' = DictSet(tokenizers, Stem(Head(loadQueue)), Head(loadQueue))
  /\ loadQueue' = Tail(loadQueue)
  /\ UNCHANGED << cmd, encoded, pc, exc, exitCode, dir, badFiles, loadErrors, textFiles,
                  ti, text, results, table, compared, skipped, messages >>
  /\ UNCHANGED buildVars

\* A load failure that ends the loop instead of going on to the next file.
LoadFailAborts ==
  /\ cmd = "compare" /\ pc = "load" /\ loadQueue # <<>>
  /\ badFiles' = badFiles \cup {Head(loadQueue)}
  /\ loadErrors' = Append(loadErrors, Head(loadQueue))
  /\ loadQueue' = <<>>
  /\ UNCHANGED << cmd, encoded, pc, exc, exitCode, dir, tokenizers,
                  textFiles, ti, text, results, table, compared, skipped,
                  messages >>
  /\ UNCHANGED buildVars

\* load_tokenizers, one pass of its loop: Tokenizer.from_file raises, the
\* except clause prints the error and the loop goes on.
LoadFail ==
  /\ cmd = "compare" /\ pc = "load" /\ loadQueue # <<>>
  /\ badFiles' = badFiles \cup {Head(loadQueue)}
  /\ loadErrors' = Append(loadErrors, Head(loadQueue))
  /\ loadQueue' = Tail(loadQueue)
  /\ UNCHANGED << cmd, encoded, pc, exc, exitCode, dir, tokenizers, textFiles,
                  ti, text, results, table, compared, skipped, messages >>
  /\ UNCHANGED buildVars

\* main ending the process with sys.exit(1) when no tokenizer was loaded.
NoTokenizersExitsNonZero ==
  /\ cmd = "compare" /\ pc = "load" /\ loadQueue = <<>>
  /\ tokenizers = <<>>
  /\ messages' = Append(messages, "No tokenizers found!")
  /\ pc' = "exit" /\ exitCode' = 1
  /\ UNCHANGED << cmd, encoded, exc, dir, badFiles, loadQueue, tokenizers,
                  loadErrors, textFiles, ti, text, results, table, compared,
                  skipped >>
  /\ UNCHANGED buildVars

\* main: load_tokenizers returned an empty dict; main prints and returns.
NoTokenizers ==
  /\ cmd = "compare" /\ pc = "load" /\ loadQueue = <<>>
  /\ tokenizers = <<>>
  /\ messages' = Append(messages, "No tokenizers found!")
  /\ pc' = "exit" /\ exitCode' = 0
  /\ UNCHANGED << cmd, encoded, exc, dir, badFiles, loadQueue, tokenizers, loadErrors,
                  textFiles, ti, text, results, table, compared, skipped >>
  /\ UNCHANGED buildVars

\* main: load_tokenizers returned tokenizers; main goes on to the text files.
Loaded ==
  /\ cmd = "compare" /\ pc = "load" /\ loadQueue = <<>>
  /\ tokenizers # <<>>
  /\ messages' = Append(messages, "Loaded")
  /\ pc' = "loop"
  /\ UNCHANGED << cmd, encoded, exc, exitCode, dir, badFiles, loadQueue, tokenizers,
                  loadErrors, textFiles, ti, text, results, table, compared,
                  skipped >>
  /\ UNCHANGED buildVars

\* main's loop: the text file does not exist.
TextMissing ==
  /\ cmd = "compare" /\ pc = "loop" /\ ti <= NumTextFiles
  /\ textFiles' = Append(textFiles, "missing")
  /\ skipped' = Append(skipped, ti)
  /\ ti' = ti + 1
  /\ UNCHANGED << cmd, encoded, pc, exc, exitCode, dir, badFiles, loadQueue, tokenizers,
                  loadErrors, text, results, table, compared, messages >>
  /\ UNCHANGED buildVars

\* main's loop returning, instead of continuing, on an empty text.
TextEmptyReturns ==
  /\ cmd = "compare" /\ pc = "loop" /\ ti <= NumTextFiles
  /\ \E kind \in TextKinds \ {"missing"} :
       /\ load_text_file(kind) = ""
       /\ textFiles' = Append(textFiles, kind)
       /\ text' = load_text_file(kind)
  /\ skipped' = Append(skipped, ti)
  /\ pc' = "exit" /\ exitCode' = 0
  /\ UNCHANGED << cmd, encoded, exc, dir, badFiles, loadQueue, tokenizers,
                  loadErrors, ti, results, table, compared, messages >>
  /\ UNCHANGED buildVars

\* main's loop: load_text_file returned "" (the file is empty, or reading it
\* raised).
TextEmpty ==
  /\ cmd = "compare" /\ pc = "loop" /\ ti <= NumTextFiles
  /\ \E kind \in TextKinds \ {"missing"} :
       /\ load_text_file(kind) = ""
       /\ textFiles' = Append(textFiles, kind)
       /\ text' = load_text_file(kind)
  /\ skipped' = Append(skipped, ti)
  /\ ti' = ti + 1
  /\ UNCHANGED << cmd, encoded, pc, exc, exitCode, dir, badFiles, loadQueue, tokenizers,
                  loadErrors, results, table, compared, messages >>
  /\ UNCHANGED buildVars

\* main's loop: the text is read and compare_tokenizers_on_text ranks the
\* tokenizers on it.
TextCompare ==
  /\ cmd = "compare" /\ pc = "loop" /\ ti <= NumTextFiles
  /\ \E kind \in TextKinds \ {"missing"} :
       /\ load_text_file(kind) # ""
       /\ textFiles' = Append(textFiles, kind)
       /\ text' = load_text_file(kind)
  /\ \E enc \in [1..Len(tokenizers) -> EncodedIds] :
       /\ encoded' = enc
       /\ results' = compare_tokenizers_on_text(tokenizers, enc)
  /\ compared' = Append(compared, ti)
  /\ pc' = "display"
  /\ UNCHANGED << cmd, exc, exitCode, dir, badFiles, loadQueue, tokenizers,
                  loadErrors, ti, table, skipped, messages >>
  /\ UNCHANGED buildVars

\* main's loop: display_results_table prints the table; an exception it
\* raises is not caught and ends the process.
TextDisplay ==
  /\ cmd = "compare" /\ pc = "display"
  /\ LET r == display_results_table(results) IN
       IF r.exc # "none"
         THEN /\ exc' = r.exc /\ pc' = "exit" /\ exitCode' = 1
              /\ UNCHANGED << table, ti >>
         ELSE /\ table' = r.rows /\ ti' = ti + 1 /\ pc' = "loop"
              /\ UNCHANGED << exc, exitCode >>
  /\ UNCHANGED << cmd, encoded, dir, badFiles, loadQueue, tokenizers, loadErrors,
                  textFiles, text, results, compared, skipped, messages >>
  /\ UNCHANGED buildVars

\* main: the loop is over; main prints the completion message and returns.
Complete ==
  /\ cmd = "compare" /\ pc = "loop" /\ ti > NumTextFiles
  /\ messages' = Append(messages, "Analysis complete!")
  /\ pc' = "exit" /\ exitCode' = 0
  /\ UNCHANGED << cmd, encoded, exc, dir, badFiles, loadQueue, tokenizers, loadErrors,
                  textFiles, ti, text, results, table, compared, skipped >>
  /\ UNCHANGED buildVars

\* ---------------------------------------------- calls of the ranker alone

CallCompare ==
  /\ cmd = "rank" /\ pc = "call_compare"
  /\ \E enc \in [1..Len(tokenizers) -> EncodedIds] :
       /\ encoded' = enc
       /\ results' = compare_tokenizers_on_text(tokenizers, enc)
  /\ pc' = "call_display"
  /\ UNCHANGED << cmd, exc, exitCode, dir, badFiles, loadQueue, tokenizers,
                  loadErrors, textFiles, ti, text, table, compared, skipped,
                  messages >>
  /\ UNCHANGED buildVars

CallDisplay ==
  /\ cmd = "rank" /\ pc = "call_display"
  /\ LET r == display_results_table(results) IN
       /\ exc' = r.exc
       /\ table' = r.rows
  /\ pc' = "returned"
  /\ UNCHANGED << cmd, encoded, exitCode, dir, badFiles, loadQueue, tokenizers,
                  loadErrors, textFiles, ti, text, results, compared, skipped,
                  messages >>
  /\ UNCHANGED buildVars

\* ------------------------------------------------------ the build command

\* main: FILES = get_corpus_file(args.corpora, args.filter); an exception is
\* not caught and ends the process.
BuildGetCorpus ==
  /\ cmd = "build" /\ pc = "get_corpus_file"
  /\ LET r == get_corpus_file(fsys, corpusName, globPattern) IN
       /\ corpusRet' = r
       /\ IF r.exc # "none"
            THEN exc' = r.exc /\ pc' = "exit" /\ exitCode' = 1
            ELSE pc' = "train" /\ UNCHANGED << exc, exitCode >>
  /\ UNCHANGED << cmd, fsys, corpusName, globPattern, vocabSize, alphabet,
                  trained, saved >>
  /\ UNCHANGED compareVars

\* main: tokenizer.train(FILES, trainer) returns. main hands vocab_size to the
\* trainer unchecked; the corpus has `alphabet` distinct base symbols.
BuildTrainOk ==
  /\ cmd = "build" /\ pc = "train"
  /\ alphabet' \in (IF corpusRet.value = <<>> THEN {0} ELSE 0..MaxAlphabet)
  /\ trained' = TRUE
  /\ pc' = "save"
  /\ UNCHANGED << cmd, exc, exitCode, fsys, corpusName, globPattern, vocabSize,
                  corpusRet, saved >>
  /\ UNCHANGED compareVars

\* main: tokenizer.train raises (a file cannot be read); not caught.
BuildTrainRaises ==
  /\ cmd = "build" /\ pc = "train"
  /\ corpusRet.value # <<>>
  /\ exc' = "Exception" /\ pc' = "exit" /\ exitCode' = 1
  /\ UNCHANGED << cmd, fsys, corpusName, globPattern, vocabSize, alphabet,
                  corpusRet, trained, saved >>
  /\ UNCHANGED compareVars

\* main: tokenizer.save writes the vocabulary file.
BuildSave ==
  /\ cmd = "build" /\ pc = "save"
  /\ saved' = TRUE
  /\ pc' = "encode"
  /\ UNCHANGED << cmd, exc, exitCode, fsys, corpusName, globPattern, vocabSize,
                  alphabet, corpusRet, trained >>
  /\ UNCHANGED compareVars

\* main: the three test sentences are encoded and printed; main returns.
BuildEncode ==
  /\ cmd = "build" /\ pc = "encode"
  /\ pc' = "exit" /\ exitCode' = 0
  /\ UNCHANGED << cmd, exc, fsys, corpusName, globPattern, vocabSize, alphabet,
                  corpusRet, trained, saved >>
  /\ UNCHANGED compareVars

\* ----------------------------------------------- a call of get_corpus_file

CallGetCorpusFile ==
  /\ cmd = "corpus" /\ pc = "call_get_corpus_file"
  /\ LET r == get_corpus_file(fsys, corpusName, globPattern) IN
       /\ corpusRet' = r
       /\ exc' = r.exc
  /\ pc' = "returned"
  /\ UNCHANGED << cmd, exitCode, fsys, corpusName, globPattern, vocabSize,
                  alphabet, trained, saved >>
  /\ UNCHANGED compareVars

\* ---------------------------------------------------------- specification

Next ==
  \/ LoadOk \/ LoadFail \/ NoTokenizers \/ Loaded
  \/ TextMissing \/ TextEmpty \/ TextCompare \/ TextDisplay \/ Complete
  \/ CallCompare \/ CallDisplay
  \/ BuildGetCorpus \/ BuildTrainOk \/ BuildTrainRaises \/ BuildSave \/ BuildEncode
  \/ CallGetCorpusFile

Spec == Init /\ [][Next]_vars

\* The comparison command alone. main is a sequential program: its next step
\* is taken whenever there is one.
CompareInit == exc = "none" /\ exitCode = -1 /\ InitCompare
CompareNext ==
  \/ LoadOk \/ LoadFail \/ NoTokenizers \/ Loaded
  \/ TextMissing \/ TextEmpty \/ TextCompare \/ TextDisplay \/ Complete
CompareSpec == CompareInit /\ [][CompareNext]_vars /\ WF_vars(CompareNext)

\* ----------------------------------------------------------------- claims

Range(q) == {q[i] : i \in 1..Len(q)}
Last(q) == q[Len(q)]

\* compare_tokenizers_on_text has returned `results` for `tokenizers` and
\* `encoded`.
Ranked ==
  \/ cmd = "rank" /\ pc \in {"call_display", "returned"}
  \/ cmd = "compare" /\ compared # <<>>

\* display_results_table has returned for `results`.
Displayed ==
  \/ cmd = "rank" /\ pc = "returned"
  \/ cmd = "compare" /\ compared # <<>> /\ pc \in {"loop", "exit"}

\* The position of the tokenizer called `name` in the mapping.
MappingIndex(name) == CHOOSE i \in 1..Len(tokenizers) : tokenizers[i][1] = name

\* C1: the list compare_tokenizers_on_text returns holds, for every entry of
\* the mapping, exactly one pair (name, number of ids that tokenizer produced
\* for the text), holds nothing else, and its token counts are non-decreasing.
C1_RankedPermutationAscending ==
  Ranked =>
    /\ Len(results) = Len(tokenizers)
    /\ \A i \in 1..Len(tokenizers) :
         Cardinality({j \in 1..Len(results) :
                        results[j] = <<tokenizers[i][1], Len(encoded[i])>>}) = 1
    /\ \A j \in 1..Len(results) : \A k \in 1..Len(results) :
         j < k => results[j][2] <= results[k][2]

\* C1 witness: three tokenizers ranked, the mapping's first one with the
\* most tokens, so the sort had to move entries.
C1_Witness ==
  /\ Ranked /\ Len(tokenizers) = 3
  /\ Len(encoded[1]) > Len(encoded[2])
  /\ Len(encoded[2]) > Len(encoded[3])
  /\ results[1][1] = tokenizers[3][1]

\* C2: two entries of the returned list with equal token counts are in the
\* order in which the mapping iterates them.
C2_TiesKeepMappingOrder ==
  Ranked =>
    \A j \in 1..Len(results) : \A k \in 1..Len(results) :
      (j < k /\ results[j][2] = results[k][2])
        => MappingIndex(results[j][1]) < MappingIndex(results[k][1])

\* C2 witness: a tie between "b" and "a" in a mapping that iterates "b"
\* first; the result keeps "b" before "a", against the order of the names.
C2_Witness ==
  /\ Ranked /\ Len(tokenizers) = 3
  /\ tokenizers[1][1] = "c" /\ tokenizers[2][1] = "b" /\ tokenizers[3][1] = "a"
  /\ Len(encoded[1]) = 0 /\ Len(encoded[2]) = 1 /\ Len(encoded[3]) = 1
  /\ results[2][1] = "b" /\ results[3][1] = "a"

\* C3: display_results_table raises no ZeroDivisionError; the overhead of
\* every row is (count - min) / min * 100 with min the first entry's count,
\* and 0 when min is 0.
C3_OverheadGuarded ==
  Displayed =>
    /\ exc = "none"
    /\ Len(table) = Len(results)
    /\ \A i \in 1..Len(table) :
         LET min == results[1][2]
             d == table[i].diff
         IN  /\ d.den # 0
             /\ table[i].bar.den # 0
             /\ IF min = 0 THEN d.num = 0
                ELSE d.num * min = (results[i][2] - min) * 100 * d.den

\* C3 witness: the table of an empty text on which every one of at least two
\* tokenizers counted 0 tokens.
C3_Witness ==
  /\ Displayed /\ cmd = "rank" /\ text = ""
  /\ Len(results) >= 2
  /\ \A i \in 1..Len(results) : results[i][2] = 0
  /\ Len(table) = Len(results)

\* C4: while load_tokenizers runs and when it returns, the keys of the
\* mapping are exactly the stems of the *.json files visited so far that
\* loaded, and the failures reported are exactly the visited files that did
\* not load; at return every *.json file has been visited.
C4_LoadedKeysAreGoodStems ==
  cmd = "compare" =>
    LET visited == GlobJson(dir) \ Range(loadQueue)
    IN  /\ DictKeys(tokenizers) = {Stem(f) : f \in visited \ badFiles}
        /\ Range(loadErrors) = visited \cap badFiles
        /\ Len(tokenizers) = Cardinality(visited \ badFiles)
        /\ (pc # "load" => visited = GlobJson(dir))

\* C4 witness: load_tokenizers is through, the first file failed and a
\* later one loaded.
C4_Witness ==
  /\ cmd = "compare" /\ pc = "loop"
  /\ [stem |-> "a", suffix |-> "json"] \in badFiles
  /\ [stem |-> "b", suffix |-> "json"] \in badFiles
  /\ DictKeys(tokenizers) = {"c"}
  /\ Len(loadErrors) = 2

\* The build command asked for a vocabulary too small for the special tokens
\* and the base alphabet of its corpus.
TooSmall == vocabSize < NumSpecialTokens + alphabet

\* C6 as claimed: a build whose target vocabulary size is too small for the
\* special tokens and the base alphabet ends in an error surfaced to the
\* caller, and no vocabulary is returned by the training or persisted.
C6_TooSmallIsRejected ==
  (cmd = "build" /\ pc = "exit" /\ corpusRet.returned /\ TooSmall)
    => (exc # "none" /\ exitCode # 0 /\ ~trained /\ ~saved)

\* The corpus names CORPORA_FILES has as keys.
Recognized == {"NKJP", "WOLNELEKTURY", "PAN_TADEUSZ", "ALL"}

\* get_corpus_file has been called and is over.
CorpusCalled ==
  \/ cmd = "corpus" /\ pc = "returned"
  \/ cmd = "build" /\ pc # "get_corpus_file"

\* C7: get_corpus_file called with a name that is no recognized corpus
\* raises the corpus-not-found error and returns no list, whatever the
\* pattern; in the build command that ends the process.
C7_UnknownCorpusRaises ==
  (CorpusCalled /\ corpusName \notin Recognized) =>
    /\ corpusRet.exc = "ValueError: Corpus not found"
    /\ ~corpusRet.returned
    /\ exc = "ValueError: Corpus not found"
    /\ (cmd = "build" => pc = "exit" /\ ~trained /\ ~saved)

\* C7 witness: a call with the name of the build command's own help text,
\* which is no key of CORPORA_FILES, and a pattern that would match files.
C7_Witness ==
  /\ CorpusCalled /\ cmd = "corpus"
  /\ corpusName = "WOLNE_LEKTURY"
  /\ globPattern = [series |-> "krzyzacy", suffix |-> "txt"]
  /\ Len(fsys[CORPORA_DIRS["WOLNELEKTURY"]]) = 2
  /\ ~corpusRet.returned

\* The comparison command printed its completion message last.
CompareSucceeded ==
  cmd = "compare" /\ messages # <<>> /\ Last(messages) = "Analysis complete!"
\* The build command ran to the end of main.
BuildSucceeded == cmd = "build" /\ exc = "none" /\ saved
\* The comparison command found no tokenizers.
NoTokenizersFound == cmd = "compare" /\ tokenizers = <<>>
\* The build command was given a corpus selector that is not recognized.
SelectorNotRecognized == cmd = "build" /\ corpusName \notin Recognized

\* C8 as claimed: a command exits with 0 on success and with a non-zero code
\* when no tokenizers are found or the corpus selector is not recognized.
C8_ExitCodesAsClaimed ==
  pc = "exit" =>
    /\ (CompareSucceeded \/ BuildSucceeded) => exitCode = 0
    /\ (NoTokenizersFound \/ SelectorNotRecognized) => exitCode # 0

\* C8 amended: a command exits with 0 on success; the build command exits
\* with a non-zero code when the corpus selector is not recognized; the
\* comparison command exits with 0 when no tokenizers are found, after
\* printing "No tokenizers found!" and comparing nothing.
C8_ExitCodes ==
  pc = "exit" =>
    /\ (CompareSucceeded \/ BuildSucceeded) => exitCode = 0
    /\ SelectorNotRecognized => exitCode # 0
    /\ NoTokenizersFound =>
         (exitCode = 0 /\ Last(messages) = "No tokenizers found!" /\ compared = <<>>)

\* C8 witness: the comparison command has exited on a directory whose only
\* tokenizer file failed to load.
C8_Witness ==
  /\ pc = "exit" /\ NoTokenizersFound
  /\ badFiles = {[stem |-> "b", suffix |-> "json"]}
  /\ loadErrors # <<>>

\* The text files main compares, and the ones it skips, in list order.
GoodTexts == SelectSeq([i \in 1..Len(textFiles) |-> i], LAMBDA i : textFiles[i] = "text")
BadTexts == SelectSeq([i \in 1..Len(textFiles) |-> i], LAMBDA i : textFiles[i] # "text")

\* C9: once the comparison command has loaded a tokenizer it reaches its
\* completion message, whatever text files are missing, unreadable or empty;
\* at its end the files compared are exactly the others, each once and in
\* list order, and the files reported and skipped are exactly the bad ones.
C9_BadTextsSkippedRunCompletes ==
  (cmd = "compare" /\ pc = "loop")
    ~> (/\ pc = "exit" /\ CompareSucceeded /\ exitCode = 0
        /\ Len(textFiles) = NumTextFiles
        /\ compared = GoodTexts
        /\ skipped = BadTexts)

\* C9 witness: a finished run whose first file was unreadable, second
\* missing, and whose third was compared.
C9_Witness ==
  /\ cmd = "compare" /\ pc = "exit"
  /\ textFiles = <<"unreadable", "missing", "text">>
  /\ compared = <<3>> /\ skipped = <<1, 2>>
  /\ Last(messages) = "Analysis complete!"

\* C10 as claimed: get_corpus_file called with a key of CORPORA_FILES returns
\* a list, for every pattern.
C10_RecognizedCorpusReturns ==
  (CorpusCalled /\ corpusName \in Recognized) =>
    (corpusRet.returned /\ corpusRet.exc = "none")

====
